---- MODULE Spec2Model ----
(***************************************************************************)
(* Worklog backend (worklog-backend/core): the entity store and the        *)
(* request handlers of the Django REST Framework views, with the           *)
(* serializers they call.  One action is one HTTP request, handled from    *)
(* permission check to response; `last' records the request served last.   *)
(* The timesheet handlers are also given step by step, one action per      *)
(* access to the store, with the requests under way held in `inflight'.    *)
(***************************************************************************)
EXTENDS Integers, FiniteSets, Sequences, TLC

VARIABLES users, projects, tasks, timesheets, leaves, timeEntries, notices,
          nextId, served, last, inflight

vars == <<users, projects, tasks, timesheets, leaves, timeEntries, notices,
          nextId, served, last, inflight>>

(* ------------------------------ bounds --------------------------------- *)

\* number of write requests (anything but a list) served in one behaviour
MaxWrites == 3

\* number of requests that can be under way at the same time
MaxInFlight == 2

\* primary keys each table can hand out (ids are never reused)
TimesheetIds == {1}
LeaveIds == {1}
TaskIds == {1, 2}
ProjectIds == {1, 2}
TimeEntryIds == {1}
NoticeIds == {1}

NULL == "NULL"

NoBody == [f \in {} |-> NULL]

(* --------------------------- the user table ---------------------------- *)

\* accounts present in the store: two regular users, two admins
SeedUsers ==
    [u \in {"u1", "u2", "a1", "a2"} |->
        [is_staff |-> u \in {"a1", "a2"}, email |-> "e0"]]

Actors == DOMAIN SeedUsers

is_staff(u) == users[u].is_staff

\* the task every seeded timesheet body refers to (parent_task 0: no parent)
SeedTasks ==
    [t \in {1} |-> [project |-> 1, name |-> "n1", assigned_to |-> "u1",
                    created_by |-> "a1", status |-> "pending", progress |-> 0,
                    parent_task |-> 0]]

SeedProjects == [p \in {1} |-> [name |-> "p1"]]

(* ----------------------- framework behaviour --------------------------- *)

\* validated_data that keeps the read-only fields of the request body
validated_data_all(body, read_only_fields) == body

\* Serializer.validated_data: the writable fields of the request body
validated_data(body, read_only_fields) ==
    [f \in (DOMAIN body) \ read_only_fields |-> body[f]]

\* serializer.save(**kwargs): validated_data overlaid with the keyword arguments
save_kwargs(vd, kwargs) ==
    [f \in (DOMAIN vd) \cup (DOMAIN kwargs) |->
        IF f \in DOMAIN kwargs THEN kwargs[f] ELSE vd[f]]

\* ModelSerializer.update: setattr(instance, attr, value) for every attr
setattrs(instance, vd) ==
    [f \in DOMAIN instance |-> IF f \in DOMAIN vd THEN vd[f] ELSE instance[f]]

\* is_valid(): required fields must be present unless the update is partial
is_valid(body, required, partial) ==
    partial \/ required \subseteq DOMAIN body

Merge(a, b) ==
    [f \in (DOMAIN a) \cup (DOMAIN b) |-> IF f \in DOMAIN b THEN b[f] ELSE a[f]]

With(table, id, row) ==
    [i \in (DOMAIN table) \cup {id} |-> IF i = id THEN row ELSE table[i]]

Without(table, id) == [i \in (DOMAIN table) \ {id} |-> table[i]]

Request(op, actor, id, body, pre, resp) ==
    [op |-> op, actor |-> actor, id |-> id, body |-> body, pre |-> pre,
     resp |-> resp, entity |-> NULL, rows |-> {}]

\* a list request: the query parameters and the primary keys it returned
Listing(entity, actor, params, rows) ==
    [op |-> "list", actor |-> actor, id |-> 0, body |-> params, pre |-> {},
     resp |-> 200, entity |-> entity, rows |-> rows]

(* --------------------------- TimesheetEntry ---------------------------- *)

TS_STATUS_CHOICES == {"draft", "submitted", "approved", "rejected"}

TS_read_only_fields == {"user"}

TS_required == {"task", "date", "hours"}

\* TimesheetEntry(**validated_data): model defaults for the omitted fields
TimesheetEntry(vd) ==
    setattrs([user |-> NULL, task |-> 0, date |-> NULL, hours |-> 0,
              description |-> NULL, status |-> "draft"], vd)

\* TimesheetEntrySerializer.is_valid: required fields, an existing task,
\* a status among the choices
TS_is_valid(body, partial) ==
    /\ is_valid(body, TS_required, partial)
    /\ "task" \in DOMAIN body => body.task \in DOMAIN tasks
    /\ "status" \in DOMAIN body => body.status \in TS_STATUS_CHOICES

\* unique_together = ('user', 'task', 'date'), enforced by the database
TS_unique_together(table, id, row) ==
    \A i \in (DOMAIN table) \ {id} :
        ~(table[i].user = row.user /\ table[i].task = row.task
          /\ table[i].date = row.date)

TimesheetEntryViewSet_get_queryset(actor) ==
    IF is_staff(actor)
    THEN DOMAIN timesheets
    ELSE {i \in DOMAIN timesheets : timesheets[i].user = actor}

\* TimesheetEntrySerializer.update: [ok, inst]
TimesheetEntrySerializer_update(instance, vd, actor) ==
    IF instance.status # "draft" /\ ~is_staff(actor)
    THEN [ok |-> FALSE, inst |-> instance]
    ELSE [ok |-> TRUE, inst |-> setattrs(instance, vd)]

\* perform_update that writes the validated fields whatever the status
TimesheetEntryViewSet_perform_update_unguarded(instance, vd, actor) ==
    IF instance.user # actor /\ ~is_staff(actor)
    THEN [resp |-> 403, inst |-> instance]
    ELSE [resp |-> 0, inst |-> setattrs(instance, vd)]

\* TimesheetEntryViewSet.perform_update: [resp, inst]; resp 0 means that
\* perform_update returned normally and the mixin answers 200
TimesheetEntryViewSet_perform_update(instance, vd, actor) ==
    IF instance.status # "draft" /\ ~is_staff(actor)
    THEN [resp |-> 0, inst |-> instance]
    ELSE IF instance.user # actor /\ ~is_staff(actor)
    THEN [resp |-> 403, inst |-> instance]
    ELSE LET r == TimesheetEntrySerializer_update(instance, vd, actor)
         IN  IF r.ok THEN [resp |-> 0, inst |-> r.inst]
                     ELSE [resp |-> 400, inst |-> instance]

TimesheetCreate(actor, body) ==
    LET vd  == validated_data(body, TS_read_only_fields)
        id  == nextId.timesheets
        row == TimesheetEntry(save_kwargs(vd, [user |-> actor]))
        resp == IF ~TS_is_valid(body, FALSE) THEN 400
                ELSE IF ~TS_unique_together(timesheets, id, row) THEN 500
                ELSE 201
    IN  /\ served < MaxWrites
        /\ id \in TimesheetIds
        /\ timesheets' = IF resp = 201 THEN With(timesheets, id, row)
                                       ELSE timesheets
        /\ nextId' = IF resp = 201 THEN [nextId EXCEPT !.timesheets = id + 1]
                                   ELSE nextId
        /\ UNCHANGED inflight
        /\ last' = Request("ts_create", actor, id, body, {}, resp)
        /\ served' = served + 1
        /\ UNCHANGED <<users, projects, tasks, leaves, timeEntries, notices>>

TimesheetUpdate(actor, id, body, partial) ==
    LET vd == validated_data(body, TS_read_only_fields)
        found == id \in TimesheetEntryViewSet_get_queryset(actor)
        r  == TimesheetEntryViewSet_perform_update(timesheets[id], vd, actor)
        resp == IF ~found THEN 404
                ELSE IF ~TS_is_valid(body, partial) THEN 400
                ELSE IF r.resp # 0 THEN r.resp
                ELSE IF ~TS_unique_together(timesheets, id, r.inst) THEN 500
                ELSE 200
    IN  /\ served < MaxWrites
        /\ id \in DOMAIN timesheets
        /\ timesheets' = IF resp = 200 THEN With(timesheets, id, r.inst)
                                       ELSE timesheets
        /\ UNCHANGED inflight
        /\ last' = Request("ts_update", actor, id, body, {timesheets[id]}, resp)
        /\ served' = served + 1
        /\ UNCHANGED <<users, projects, tasks, leaves, timeEntries, notices,
                       nextId>>

TimesheetDestroy(actor, id) ==
    LET found == id \in TimesheetEntryViewSet_get_queryset(actor)
        resp == IF ~found THEN 404
                ELSE IF timesheets[id].user # actor /\ ~is_staff(actor) THEN 403
                ELSE 204
    IN  /\ served < MaxWrites
        /\ id \in DOMAIN timesheets
        /\ timesheets' = IF resp = 204 THEN Without(timesheets, id)
                                       ELSE timesheets
        /\ UNCHANGED inflight
        /\ last' = Request("ts_destroy", actor, id, NoBody, {timesheets[id]},
                           resp)
        /\ served' = served + 1
        /\ UNCHANGED <<users, projects, tasks, leaves, timeEntries, notices,
                       nextId>>

\* submit that does not compare entry.user with the actor
TimesheetEntryViewSet_submit_any(entry, actor) ==
    IF entry.status = "draft"
    THEN [resp |-> 200, inst |-> [entry EXCEPT !.status = "submitted"]]
    ELSE [resp |-> 400, inst |-> entry]

\* TimesheetEntryViewSet.submit: [resp, inst]
TimesheetEntryViewSet_submit(entry, actor) ==
    IF entry.user # actor THEN [resp |-> 403, inst |-> entry]
    ELSE IF entry.status = "draft"
    THEN [resp |-> 200, inst |-> [entry EXCEPT !.status = "submitted"]]
    ELSE [resp |-> 400, inst |-> entry]

TimesheetSubmit(actor, id) ==
    LET found == id \in TimesheetEntryViewSet_get_queryset(actor)
        r == TimesheetEntryViewSet_submit(timesheets[id], actor)
        resp == IF ~found THEN 404 ELSE r.resp
    IN  /\ served < MaxWrites
        /\ id \in DOMAIN timesheets
        /\ timesheets' = IF resp = 200 THEN With(timesheets, id, r.inst)
                                       ELSE timesheets
        /\ UNCHANGED inflight
        /\ last' = Request("ts_submit", actor, id, NoBody, {timesheets[id]},
                           resp)
        /\ served' = served + 1
        /\ UNCHANGED <<users, projects, tasks, leaves, timeEntries, notices,
                       nextId>>

\* TimesheetEntryViewSet.update_status: [resp, inst]
TimesheetEntryViewSet_update_status(entry, new_status) ==
    IF new_status \in {"approved", "rejected"}
    THEN [resp |-> 200, inst |-> [entry EXCEPT !.status = new_status]]
    ELSE [resp |-> 400, inst |-> entry]

TimesheetUpdateStatus(actor, id, body) ==
    LET found == id \in TimesheetEntryViewSet_get_queryset(actor)
        new_status == IF "status" \in DOMAIN body THEN body.status ELSE NULL
        r == TimesheetEntryViewSet_update_status(timesheets[id], new_status)
        resp == IF ~is_staff(actor) THEN 403
                ELSE IF ~found THEN 404
                ELSE r.resp
    IN  /\ served < MaxWrites
        /\ id \in DOMAIN timesheets
        /\ timesheets' = IF resp = 200 THEN With(timesheets, id, r.inst)
                                       ELSE timesheets
        /\ UNCHANGED inflight
        /\ last' = Request("ts_update_status", actor, id, body,
                           {timesheets[id]}, resp)
        /\ served' = served + 1
        /\ UNCHANGED <<users, projects, tasks, leaves, timeEntries, notices,
                       nextId>>

(* request bodies of the timesheet endpoints *)

TSStatusPart == {NoBody} \cup {[status |-> s] : s \in TS_STATUS_CHOICES}

TSContentPart ==
    {NoBody, [hours |-> 8], [task |-> 1, date |-> "d1", hours |-> 4]}

TSBodies == {Merge(c, s) : c \in TSContentPart, s \in TSStatusPart}

TSStatusBodies == {NoBody, [status |-> "approved"], [status |-> "rejected"],
                   [status |-> "submitted"]}

(* ------------- TimesheetEntry handlers, one store access a step -------- *)

\* a request under way: the instance it holds in memory and its next step
InFlight(op, actor, id, body, partial, inst, pc) ==
    [op |-> op, actor |-> actor, id |-> id, body |-> body,
     partial |-> partial, inst |-> inst, pc |-> pc]

\* the stored row a response reports as the one before the request's write
Stored(id) == IF id \in DOMAIN timesheets THEN {timesheets[id]} ELSE {}

\* UpdateModelMixin.update up to perform_update: get_object() reads the row
\* that the serializer keeps as its instance; is_valid() follows
TimesheetUpdateGetObject(actor, id, body, partial) ==
    LET found == id \in TimesheetEntryViewSet_get_queryset(actor)
        resp == IF ~found THEN 404
                ELSE IF ~TS_is_valid(body, partial) THEN 400
                ELSE 0
    IN  /\ served < MaxWrites
        /\ Cardinality(inflight) < MaxInFlight
        /\ id \in DOMAIN timesheets
        /\ served' = served + 1
        /\ IF resp = 0
           THEN /\ inflight' = inflight \cup
                      {InFlight("ts_update", actor, id, body, partial,
                                timesheets[id], "perform_update")}
                /\ UNCHANGED last
           ELSE /\ last' = Request("ts_update", actor, id, body,
                                   {timesheets[id]}, resp)
                /\ UNCHANGED inflight
        /\ UNCHANGED <<users, projects, tasks, timesheets, leaves,
                       timeEntries, notices, nextId>>

\* TimesheetEntryViewSet.perform_update before serializer.save(): a second
\* get_object() and the two checks on the row it read
TimesheetUpdatePerformUpdate(r) ==
    LET found == r.id \in TimesheetEntryViewSet_get_queryset(r.actor)
        instance == timesheets[r.id]
        resp == IF ~found THEN 404
                ELSE IF instance.status # "draft" /\ ~is_staff(r.actor)
                THEN 200
                ELSE IF instance.user # r.actor /\ ~is_staff(r.actor)
                THEN 403
                ELSE 0
    IN  /\ r \in inflight
        /\ r.op = "ts_update"
        /\ r.pc = "perform_update"
        /\ IF resp = 0
           THEN /\ inflight' = (inflight \ {r}) \cup {[r EXCEPT !.pc = "save"]}
                /\ UNCHANGED last
           ELSE /\ inflight' = inflight \ {r}
                /\ last' = Request("ts_update", r.actor, r.id, r.body,
                                   Stored(r.id), resp)
        /\ UNCHANGED <<users, projects, tasks, timesheets, leaves,
                       timeEntries, notices, nextId, served>>

\* serializer.save(): TimesheetEntrySerializer.update on the instance read
\* by the first get_object(), then instance.save() writes all its fields
TimesheetUpdateSave(r) ==
    LET vd == validated_data(r.body, TS_read_only_fields)
        u  == TimesheetEntrySerializer_update(r.inst, vd, r.actor)
        resp == IF ~u.ok THEN 400
                ELSE IF ~TS_unique_together(timesheets, r.id, u.inst) THEN 500
                ELSE 200
    IN  /\ r \in inflight
        /\ r.op = "ts_update"
        /\ r.pc = "save"
        /\ inflight' = inflight \ {r}
        /\ timesheets' = IF resp = 200 THEN With(timesheets, r.id, u.inst)
                                       ELSE timesheets
        /\ last' = Request("ts_update", r.actor, r.id, r.body, Stored(r.id),
                           resp)
        /\ UNCHANGED <<users, projects, tasks, leaves, timeEntries, notices,
                       nextId, served>>

\* TimesheetEntryViewSet.submit up to entry.save(): get_object(), the owner
\* and status checks, and the assignment to entry.status in memory
TimesheetSubmitGetObject(actor, id) ==
    LET found == id \in TimesheetEntryViewSet_get_queryset(actor)
        r == TimesheetEntryViewSet_submit(timesheets[id], actor)
        resp == IF ~found THEN 404 ELSE r.resp
    IN  /\ served < MaxWrites
        /\ Cardinality(inflight) < MaxInFlight
        /\ id \in DOMAIN timesheets
        /\ served' = served + 1
        /\ IF resp = 200
           THEN /\ inflight' = inflight \cup
                      {InFlight("ts_submit", actor, id, NoBody, FALSE,
                                r.inst, "save")}
                /\ UNCHANGED last
           ELSE /\ last' = Request("ts_submit", actor, id, NoBody,
                                   {timesheets[id]}, resp)
                /\ UNCHANGED inflight
        /\ UNCHANGED <<users, projects, tasks, timesheets, leaves,
                       timeEntries, notices, nextId>>

\* TimesheetEntryViewSet.update_status up to entry.save(): IsAdminUser,
\* get_object(), the check of the new status and the assignment in memory
TimesheetUpdateStatusGetObject(actor, id, body) ==
    LET found == id \in TimesheetEntryViewSet_get_queryset(actor)
        new_status == IF "status" \in DOMAIN body THEN body.status ELSE NULL
        r == TimesheetEntryViewSet_update_status(timesheets[id], new_status)
        resp == IF ~is_staff(actor) THEN 403
                ELSE IF ~found THEN 404
                ELSE r.resp
    IN  /\ served < MaxWrites
        /\ Cardinality(inflight) < MaxInFlight
        /\ id \in DOMAIN timesheets
        /\ served' = served + 1
        /\ IF resp = 200
           THEN /\ inflight' = inflight \cup
                      {InFlight("ts_update_status", actor, id, body, FALSE,
                                r.inst, "save")}
                /\ UNCHANGED last
           ELSE /\ last' = Request("ts_update_status", actor, id, body,
                                   {timesheets[id]}, resp)
                /\ UNCHANGED inflight
        /\ UNCHANGED <<users, projects, tasks, timesheets, leaves,
                       timeEntries, notices, nextId>>

\* entry.save() of submit and of update_status: writes all fields of the
\* entry held in memory
TimesheetEntrySave(r) ==
    /\ r \in inflight
    /\ r.op \in {"ts_submit", "ts_update_status"}
    /\ r.pc = "save"
    /\ inflight' = inflight \ {r}
    /\ timesheets' = With(timesheets, r.id, r.inst)
    /\ last' = Request(r.op, r.actor, r.id, r.body, Stored(r.id), 200)
    /\ UNCHANGED <<users, projects, tasks, leaves, timeEntries, notices,
                   nextId, served>>

\* request bodies of the interleaved timesheet requests
TSStepBodies == {[hours |-> 8], [hours |-> 8, status |-> "draft"]}

(* ---------------------------- LeaveRequest ----------------------------- *)

LR_STATUS_CHOICES == {"pending", "approved", "rejected"}

LR_read_only_fields == {"user", "created_at", "updated_at"}

LR_required == {"leave_type", "start_date", "reason"}

LR_content_fields == {"leave_type", "start_date", "end_date", "reason",
                      "is_hourly", "start_time", "end_time"}

\* LeaveRequest(**validated_data): model defaults for the omitted fields
LeaveRequest(vd) ==
    setattrs([user |-> NULL, leave_type |-> NULL, start_date |-> NULL,
              end_date |-> NULL, reason |-> NULL, status |-> "pending",
              is_hourly |-> FALSE, start_time |-> NULL, end_time |-> NULL,
              admin_comments |-> NULL, approved_by |-> NULL], vd)

\* LeaveRequestSerializer.is_valid: required fields, a status among the
\* choices, an existing user as approved_by
LR_is_valid(body, partial) ==
    /\ is_valid(body, LR_required, partial)
    /\ "status" \in DOMAIN body => body.status \in LR_STATUS_CHOICES
    /\ "approved_by" \in DOMAIN body =>
          body.approved_by \in (DOMAIN users) \cup {NULL}

LeaveRequestViewSet_get_queryset(actor) ==
    IF is_staff(actor)
    THEN DOMAIN leaves
    ELSE {i \in DOMAIN leaves : leaves[i].user = actor}

\* LeaveRequestSerializer.update without the approved/rejected branch
LeaveRequestSerializer_update_keeps_approver(instance, vd, actor) ==
    LET has(f) == f \in DOMAIN vd
        approved_by ==
            IF is_staff(actor) /\ has("status") /\ vd.status = "pending"
               /\ instance.status # "pending"
            THEN NULL
            ELSE instance.approved_by
        admin_comments ==
            IF is_staff(actor) /\ has("admin_comments")
            THEN vd.admin_comments
            ELSE instance.admin_comments
        others == [f \in (DOMAIN vd) \ {"status", "admin_comments",
                                        "approved_by"} |-> vd[f]]
        status == IF has("status") THEN vd.status ELSE instance.status
    IN  IF ~is_staff(actor) /\ has("admin_comments")
        THEN [ok |-> FALSE, inst |-> instance]
        ELSE [ok |-> TRUE,
              inst |-> [setattrs(instance, others) EXCEPT
                           !.approved_by = approved_by,
                           !.admin_comments = admin_comments,
                           !.status = status]]

\* LeaveRequestSerializer.update without the reverted-to-pending branch
LeaveRequestSerializer_update_no_clear(instance, vd, actor) ==
    LET has(f) == f \in DOMAIN vd
        approved_by ==
            IF is_staff(actor) /\ has("status")
               /\ vd.status \in {"approved", "rejected"}
            THEN actor
            ELSE instance.approved_by
        admin_comments ==
            IF is_staff(actor) /\ has("admin_comments")
            THEN vd.admin_comments
            ELSE instance.admin_comments
        others == [f \in (DOMAIN vd) \ {"status", "admin_comments",
                                        "approved_by"} |-> vd[f]]
        status == IF has("status") THEN vd.status ELSE instance.status
    IN  IF ~is_staff(actor) /\ has("admin_comments")
        THEN [ok |-> FALSE, inst |-> instance]
        ELSE [ok |-> TRUE,
              inst |-> [setattrs(instance, others) EXCEPT
                           !.approved_by = approved_by,
                           !.admin_comments = admin_comments,
                           !.status = status]]

\* LeaveRequestSerializer.update: [ok, inst]
LeaveRequestSerializer_update(instance, vd, actor) ==
    LET has(f) == f \in DOMAIN vd
        approved_by ==
            IF is_staff(actor) /\ has("status")
            THEN IF vd.status \in {"approved", "rejected"} THEN actor
                 ELSE IF vd.status = "pending" /\ instance.status # "pending"
                 THEN NULL
                 ELSE instance.approved_by
            ELSE instance.approved_by
        admin_comments ==
            IF is_staff(actor) /\ has("admin_comments")
            THEN vd.admin_comments
            ELSE instance.admin_comments
        others == [f \in (DOMAIN vd) \ {"status", "admin_comments",
                                        "approved_by"} |-> vd[f]]
        status == IF has("status") THEN vd.status ELSE instance.status
    IN  IF ~is_staff(actor) /\ has("admin_comments")
        THEN [ok |-> FALSE, inst |-> instance]
        ELSE [ok |-> TRUE,
              inst |-> [setattrs(instance, others) EXCEPT
                           !.approved_by = approved_by,
                           !.admin_comments = admin_comments,
                           !.status = status]]

\* LeaveRequestViewSet.perform_update: [resp, inst]; resp 0 means that
\* perform_update returned normally and the mixin answers 200
LeaveRequestViewSet_perform_update(instance, vd, actor) ==
    LET has(f) == f \in DOMAIN vd
        saved(data) ==
            LET r == LeaveRequestSerializer_update(instance, data, actor)
            IN  IF r.ok THEN [resp |-> 0, inst |-> r.inst]
                        ELSE [resp |-> 400, inst |-> instance]
    IN  IF is_staff(actor)
        THEN IF has("status") /\ vd.status \in {"approved", "rejected"}
             THEN saved(save_kwargs(vd, [approved_by |-> actor]))
             ELSE saved(vd)
        ELSE IF instance.user # actor
        THEN [resp |-> 403, inst |-> instance]
        ELSE IF has("status") /\ (instance.status # "pending"
                                  \/ vd.status \in {"approved", "rejected"})
        THEN [resp |-> 403, inst |-> instance]
        ELSE IF has("admin_comments") \/ has("approved_by")
        THEN [resp |-> 403, inst |-> instance]
        ELSE saved(vd)

\* LeaveRequestViewSet.perform_create: the row that is stored
LeaveRequestViewSet_perform_create(vd, actor) ==
    LeaveRequest(save_kwargs(vd, [user |-> actor]))

LeaveCreate(actor, body) ==
    LET vd  == validated_data(body, LR_read_only_fields)
        id  == nextId.leaves
        row == LeaveRequestViewSet_perform_create(vd, actor)
        resp == IF ~LR_is_valid(body, FALSE) THEN 400 ELSE 201
    IN  /\ served < MaxWrites
        /\ id \in LeaveIds
        /\ leaves' = IF resp = 201 THEN With(leaves, id, row) ELSE leaves
        /\ nextId' = IF resp = 201 THEN [nextId EXCEPT !.leaves = id + 1]
                                   ELSE nextId
        /\ UNCHANGED inflight
        /\ last' = Request("lr_create", actor, id, body, {}, resp)
        /\ served' = served + 1
        /\ UNCHANGED <<users, projects, tasks, timesheets, timeEntries,
                       notices>>

LeaveUpdate(actor, id, body, partial) ==
    LET vd == validated_data(body, LR_read_only_fields)
        found == id \in LeaveRequestViewSet_get_queryset(actor)
        r  == LeaveRequestViewSet_perform_update(leaves[id], vd, actor)
        resp == IF ~found THEN 404
                ELSE IF ~LR_is_valid(body, partial) THEN 400
                ELSE IF r.resp # 0 THEN r.resp
                ELSE 200
    IN  /\ served < MaxWrites
        /\ id \in DOMAIN leaves
        /\ leaves' = IF resp = 200 THEN With(leaves, id, r.inst) ELSE leaves
        /\ UNCHANGED inflight
        /\ last' = Request("lr_update", actor, id, body, {leaves[id]}, resp)
        /\ served' = served + 1
        /\ UNCHANGED <<users, projects, tasks, timesheets, timeEntries,
                       notices, nextId>>

LeaveDestroy(actor, id) ==
    LET found == id \in LeaveRequestViewSet_get_queryset(actor)
        resp == IF ~found THEN 404
                ELSE IF ~is_staff(actor) /\ leaves[id].user # actor THEN 403
                ELSE 204
    IN  /\ served < MaxWrites
        /\ id \in DOMAIN leaves
        /\ leaves' = IF resp = 204 THEN Without(leaves, id) ELSE leaves
        /\ UNCHANGED inflight
        /\ last' = Request("lr_destroy", actor, id, NoBody, {leaves[id]}, resp)
        /\ served' = served + 1
        /\ UNCHANGED <<users, projects, tasks, timesheets, timeEntries,
                       notices, nextId>>

(* request bodies of the leave-request endpoints *)

LRBase == [leave_type |-> "sick", start_date |-> "d1", reason |-> "r1"]

LRChanged ==
    [leave_type |-> "vacation", start_date |-> "d2", end_date |-> "d3",
     reason |-> "r2", is_hourly |-> TRUE, start_time |-> "t1",
     end_time |-> "t2"]

LRStatusPart == {NoBody} \cup {[status |-> s] : s \in LR_STATUS_CHOICES}

LRCommentPart == {NoBody, [admin_comments |-> "c1"]}

LRApproverPart == {NoBody, [approved_by |-> "a2"]}

LRAdminParts ==
    {Merge(Merge(s, c), a) :
        s \in LRStatusPart, c \in LRCommentPart, a \in LRApproverPart}

LRCreateBodies == {Merge(LRBase, x) : x \in LRAdminParts}

LRUpdateBodies == {Merge(c, x) : c \in {NoBody, LRChanged}, x \in LRAdminParts}

(* ------------------------------- Project ------------------------------- *)

\* Project(**validated_data)
Project(vd) == setattrs([name |-> NULL, description |-> NULL], vd)

\* ProjectViewSet.get_permissions for the write actions: IsAdminUser
ProjectViewSet_get_permissions(actor) == is_staff(actor)

\* ProjectViewSet.queryset: Project.objects.all()
ProjectViewSet_queryset(actor) == DOMAIN projects

ProjectCreate(actor, body) ==
    LET id  == nextId.projects
        row == Project(body)
        resp == IF ~ProjectViewSet_get_permissions(actor) THEN 403
                ELSE IF ~is_valid(body, {"name"}, FALSE) THEN 400
                ELSE IF \E i \in DOMAIN projects : projects[i].name = row.name
                THEN 400
                ELSE 201
    IN  /\ served < MaxWrites
        /\ id \in ProjectIds
        /\ projects' = IF resp = 201 THEN With(projects, id, row) ELSE projects
        /\ nextId' = IF resp = 201 THEN [nextId EXCEPT !.projects = id + 1]
                                   ELSE nextId
        /\ UNCHANGED inflight
        /\ last' = Request("project_create", actor, id, body, {}, resp)
        /\ served' = served + 1
        /\ UNCHANGED <<users, tasks, timesheets, leaves, timeEntries, notices>>

(* --------------------------------- Task -------------------------------- *)

Task_read_only_fields == {"created_by"}

Task_required == {"project", "name"}

\* Task(**validated_data): model defaults for the omitted fields
Task(vd) ==
    setattrs([project |-> 0, name |-> NULL, description |-> NULL,
              assigned_to |-> NULL, created_by |-> NULL, due_date |-> NULL,
              status |-> "pending", progress |-> 0, parent_task |-> 0,
              reporting_manager |-> NULL], vd)

\* has_permission that lets every authenticated POST through
IsAssignedUserOrAdmin_has_permission_any(actor, body) == TRUE

\* IsAssignedUserOrAdmin.has_permission for POST on the task view
IsAssignedUserOrAdmin_has_permission(actor, body) ==
    \/ is_staff(actor)
    \/ LET assigned_to_id == IF "assigned_to" \in DOMAIN body
                             THEN body.assigned_to ELSE NULL
       IN  assigned_to_id = NULL \/ assigned_to_id = actor

\* get_queryset without the assignee/creator filter
TaskViewSet_get_queryset_all(actor) == DOMAIN tasks

TaskViewSet_get_queryset(actor) ==
    IF is_staff(actor)
    THEN DOMAIN tasks
    ELSE {i \in DOMAIN tasks :
            tasks[i].assigned_to = actor \/ tasks[i].created_by = actor}

\* unique_together = ('project', 'name', 'parent_task')
Task_unique_together(table, id, row) ==
    \A i \in (DOMAIN table) \ {id} :
        ~(table[i].project = row.project /\ table[i].name = row.name
          /\ table[i].parent_task = row.parent_task)

\* IsAssignedUserOrAdmin.has_object_permission for PUT, PATCH and DELETE
IsAssignedUserOrAdmin_has_object_permission(actor, obj) ==
    \/ is_staff(actor)
    \/ "assigned_to" \in DOMAIN obj /\ obj.assigned_to = actor
    \/ "user" \in DOMAIN obj /\ obj.user = actor

Task_STATUS_CHOICES == {"pending", "in_progress", "completed", "on_hold"}

\* TaskSerializer.is_valid: required fields, existing related rows, a status
\* among the choices, an integer progress, the unique_together validator
Task_is_valid(body, partial, id) ==
    LET vd == validated_data(body, Task_read_only_fields)
        row == IF id \in DOMAIN tasks THEN setattrs(tasks[id], vd)
                                      ELSE Task(vd)
    IN  /\ is_valid(body, Task_required, partial)
        /\ "project" \in DOMAIN body => body.project \in DOMAIN projects
        /\ "assigned_to" \in DOMAIN body =>
              body.assigned_to \in (DOMAIN users) \cup {NULL}
        /\ "parent_task" \in DOMAIN body =>
              body.parent_task \in (DOMAIN tasks) \cup {0}
        /\ "status" \in DOMAIN body => body.status \in Task_STATUS_CHOICES
        /\ "progress" \in DOMAIN body => body.progress \in Int
        /\ Task_unique_together(tasks, id, row)

\* TaskViewSet.perform_create: [resp, inst]; the row is stored before the
\* assignment check, so a refusal leaves it in the table
TaskViewSet_perform_create(vd, actor) ==
    LET saved == Task(save_kwargs(vd, [created_by |-> actor]))
    IN  IF ~is_staff(actor)
        THEN IF "assigned_to" \in DOMAIN vd /\ vd.assigned_to # actor
             THEN [resp |-> 403, inst |-> saved]
             ELSE IF "assigned_to" \notin DOMAIN vd
             THEN [resp |-> 201, inst |-> [saved EXCEPT !.assigned_to = actor]]
             ELSE [resp |-> 201, inst |-> saved]
        ELSE [resp |-> 201, inst |-> saved]

TaskCreate(actor, body) ==
    LET vd  == validated_data(body, Task_read_only_fields)
        id  == nextId.tasks
        r   == TaskViewSet_perform_create(vd, actor)
        valid == Task_is_valid(body, FALSE, id)
        resp == IF ~IsAssignedUserOrAdmin_has_permission(actor, body) THEN 403
                ELSE IF ~valid THEN 400
                ELSE r.resp
        stored == resp = 201 \/ (resp = 403 /\ valid
                    /\ IsAssignedUserOrAdmin_has_permission(actor, body))
    IN  /\ served < MaxWrites
        /\ id \in TaskIds
        /\ tasks' = IF stored THEN With(tasks, id, r.inst) ELSE tasks
        /\ nextId' = IF stored THEN [nextId EXCEPT !.tasks = id + 1]
                               ELSE nextId
        /\ UNCHANGED inflight
        /\ last' = Request("task_create", actor, id, body, {}, resp)
        /\ served' = served + 1
        /\ UNCHANGED <<users, projects, timesheets, leaves, timeEntries,
                       notices>>

\* TaskViewSet.perform_update: [resp, inst]; resp 0 means that perform_update
\* returned normally and the mixin answers 200
TaskViewSet_perform_update(instance, vd, actor) ==
    IF ~is_staff(actor)
       /\ ~(instance.assigned_to = actor \/ instance.created_by = actor)
    THEN [resp |-> 403, inst |-> instance]
    ELSE IF ~is_staff(actor) /\ "assigned_to" \in DOMAIN vd
            /\ vd.assigned_to # actor
    THEN [resp |-> 403, inst |-> instance]
    ELSE [resp |-> 0, inst |-> setattrs(instance, vd)]

TaskUpdate(actor, id, body, partial) ==
    LET vd == validated_data(body, Task_read_only_fields)
        found == id \in TaskViewSet_get_queryset(actor)
        r  == TaskViewSet_perform_update(tasks[id], vd, actor)
        resp == IF ~found THEN 404
                ELSE IF ~IsAssignedUserOrAdmin_has_object_permission(
                            actor, tasks[id]) THEN 403
                ELSE IF ~Task_is_valid(body, partial, id) THEN 400
                ELSE IF r.resp # 0 THEN r.resp
                ELSE 200
    IN  /\ served < MaxWrites
        /\ id \in DOMAIN tasks
        /\ tasks' = IF resp = 200 THEN With(tasks, id, r.inst) ELSE tasks
        /\ UNCHANGED inflight
        /\ last' = [Request("task_update", actor, id, body, {tasks[id]}, resp)
                        EXCEPT !.rows = DOMAIN tasks]
        /\ served' = served + 1
        /\ UNCHANGED <<users, projects, timesheets, leaves, timeEntries,
                       notices, nextId>>

\* on_delete=CASCADE along parent_task: the tasks deleted with the tasks in S
RECURSIVE cascade(_, _)
cascade(table, S) ==
    LET T == S \cup {i \in DOMAIN table : table[i].parent_task \in S}
    IN  IF T = S THEN S ELSE cascade(table, T)

\* perform_destroy without the creator check
TaskViewSet_perform_destroy_unchecked(instance, actor) == 204

\* TaskViewSet.perform_destroy: the response
TaskViewSet_perform_destroy(instance, actor) ==
    IF ~is_staff(actor) /\ instance.created_by # actor THEN 403 ELSE 204

TaskDestroy(actor, id) ==
    LET found == id \in TaskViewSet_get_queryset(actor)
        resp == IF ~found THEN 404
                ELSE IF ~IsAssignedUserOrAdmin_has_object_permission(
                            actor, tasks[id]) THEN 403
                ELSE TaskViewSet_perform_destroy(tasks[id], actor)
        gone == cascade(tasks, {id})
    IN  /\ served < MaxWrites
        /\ id \in DOMAIN tasks
        /\ IF resp = 204
           THEN /\ tasks' = [i \in (DOMAIN tasks) \ gone |-> tasks[i]]
                /\ timesheets' = [i \in {j \in DOMAIN timesheets :
                                            timesheets[j].task \notin gone}
                                    |-> timesheets[i]]
                /\ timeEntries' = [i \in {j \in DOMAIN timeEntries :
                                            timeEntries[j].task \notin gone}
                                    |-> timeEntries[i]]
           ELSE UNCHANGED <<tasks, timesheets, timeEntries>>
        /\ UNCHANGED inflight
        /\ last' = [Request("task_destroy", actor, id, NoBody, {tasks[id]},
                            resp) EXCEPT !.rows = DOMAIN tasks]
        /\ served' = served + 1
        /\ UNCHANGED <<users, projects, leaves, notices, nextId>>

(* request bodies of the task endpoints *)

TaskAssigneePart ==
    {NoBody} \cup {[assigned_to |-> u] : u \in {NULL, "u1", "u2"}}

TaskCreateBodies ==
    {Merge(Merge([project |-> 1, name |-> "n2"], a), q) :
        a \in TaskAssigneePart,
        q \in {NoBody, [parent_task |-> 1], [created_by |-> "a2"]}}

TaskUpdateBodies ==
    {Merge(c, a) :
        c \in {NoBody, [project |-> 1, name |-> "n1"]},
        a \in {NoBody, [assigned_to |-> "u1"], [assigned_to |-> "u2"]}}

TaskProgressBodies ==
    {[project |-> 1, name |-> "n2", progress |-> n] : n \in {0, 100, 101, -1}}
    \cup {[progress |-> n] : n \in {50, 150}}

(* ----------------------------- TaskTimeEntry --------------------------- *)

TTE_read_only_fields == {"user", "created_at", "updated_at"}

TTE_required == {"task", "start_time", "end_time"}

\* TaskTimeEntry(**validated_data)
TaskTimeEntry(vd) ==
    setattrs([user |-> NULL, task |-> 0, start_time |-> 0, end_time |-> 0,
              description |-> NULL], vd)

\* validate that compares with > and lets equal timestamps through
TaskTimeEntrySerializer_validate_gt(data) == ~(data.start_time > data.end_time)

\* TaskTimeEntrySerializer.validate: TRUE when the data is accepted
TaskTimeEntrySerializer_validate(data) == ~(data.start_time >= data.end_time)

\* TaskTimeEntryListCreateView.get_queryset
TaskTimeEntryListCreateView_get_queryset(actor) ==
    IF ~is_staff(actor)
    THEN {i \in DOMAIN timeEntries : timeEntries[i].user = actor}
    ELSE DOMAIN timeEntries

TimeEntryCreate(actor, body) ==
    LET vd  == validated_data(body, TTE_read_only_fields)
        id  == nextId.timeEntries
        row == TaskTimeEntry(save_kwargs(vd, [user |-> actor]))
        resp == IF ~is_valid(body, TTE_required, FALSE) THEN 400
                ELSE IF body.task \notin DOMAIN tasks THEN 400
                ELSE IF ~TaskTimeEntrySerializer_validate(vd) THEN 400
                ELSE 201
    IN  /\ served < MaxWrites
        /\ id \in TimeEntryIds
        /\ timeEntries' = IF resp = 201 THEN With(timeEntries, id, row)
                                        ELSE timeEntries
        /\ nextId' = IF resp = 201 THEN [nextId EXCEPT !.timeEntries = id + 1]
                                   ELSE nextId
        /\ UNCHANGED inflight
        /\ last' = Request("tte_create", actor, id, body, {}, resp)
        /\ served' = served + 1
        /\ UNCHANGED <<users, projects, tasks, timesheets, leaves, notices>>

\* validate that skips the comparison when a timestamp is missing
TaskTimeEntrySerializer_run_validate_lenient(data) ==
    IF {"start_time", "end_time"} \subseteq DOMAIN data
       /\ data.start_time >= data.end_time
    THEN 400 ELSE 0

\* TaskTimeEntrySerializer.validate as is_valid() runs it: data['start_time']
\* or data['end_time'] of a partial update raises KeyError (500), a
\* ValidationError is 400, 0 is acceptance
TaskTimeEntrySerializer_run_validate(data) ==
    IF ~({"start_time", "end_time"} \subseteq DOMAIN data) THEN 500
    ELSE IF ~TaskTimeEntrySerializer_validate(data) THEN 400
    ELSE 0

\* TaskTimeEntryRetrieveUpdateDestroyView.get_queryset
TaskTimeEntryRetrieveUpdateDestroyView_get_queryset(actor) ==
    IF is_staff(actor)
    THEN DOMAIN timeEntries
    ELSE {i \in DOMAIN timeEntries : timeEntries[i].user = actor}

TimeEntryUpdate(actor, id, body, partial) ==
    LET vd == validated_data(body, TTE_read_only_fields)
        found == id \in TaskTimeEntryRetrieveUpdateDestroyView_get_queryset(
                            actor)
        v == TaskTimeEntrySerializer_run_validate(vd)
        resp == IF ~found THEN 404
                ELSE IF ~is_valid(body, TTE_required, partial) THEN 400
                ELSE IF "task" \in DOMAIN body /\ body.task \notin DOMAIN tasks
                THEN 400
                ELSE IF v # 0 THEN v
                ELSE 200
    IN  /\ served < MaxWrites
        /\ id \in DOMAIN timeEntries
        /\ timeEntries' = IF resp = 200
                          THEN With(timeEntries, id,
                                    setattrs(timeEntries[id], vd))
                          ELSE timeEntries
        /\ UNCHANGED inflight
        /\ last' = Request("tte_update", actor, id, body, {timeEntries[id]},
                           resp)
        /\ served' = served + 1
        /\ UNCHANGED <<users, projects, tasks, timesheets, leaves, notices,
                       nextId>>

TimeEntryDestroy(actor, id) ==
    LET found == id \in TaskTimeEntryRetrieveUpdateDestroyView_get_queryset(
                            actor)
        resp == IF ~found THEN 404 ELSE 204
    IN  /\ served < MaxWrites
        /\ id \in DOMAIN timeEntries
        /\ timeEntries' = IF resp = 204 THEN Without(timeEntries, id)
                                        ELSE timeEntries
        /\ UNCHANGED inflight
        /\ last' = Request("tte_destroy", actor, id, NoBody,
                           {timeEntries[id]}, resp)
        /\ served' = served + 1
        /\ UNCHANGED <<users, projects, tasks, timesheets, leaves, notices,
                       nextId>>

(* request bodies of the time-entry endpoints *)

TTECreateBodies ==
    {[task |-> 1, start_time |-> b, end_time |-> e] :
        b \in {1, 2}, e \in {1, 2, 3}}

TTEUpdateBodies ==
    {[start_time |-> 3], [end_time |-> 1], [description |-> "done"],
     [start_time |-> 2, end_time |-> 3], [start_time |-> 3, end_time |-> 3],
     [task |-> 1, start_time |-> 1, end_time |-> 3],
     [task |-> 1, start_time |-> 3, end_time |-> 2]}

(* -------------------------------- Notice ------------------------------- *)

Notice_read_only_fields == {"created_by", "created_at", "updated_at"}

\* Notice(**validated_data)
Notice(vd) == setattrs([title |-> NULL, content |-> NULL,
                        created_by |-> NULL], vd)

\* get_permissions that asks only for an authenticated user
NoticeViewSet_get_permissions_authenticated(actor) == actor \in DOMAIN users

\* NoticeViewSet.get_permissions for create/update/partial_update/destroy
NoticeViewSet_get_permissions(actor) == is_staff(actor)

\* NoticeViewSet.queryset: Notice.objects.all()
NoticeViewSet_queryset(actor) == DOMAIN notices

NoticeCreate(actor, body) ==
    LET vd  == validated_data(body, Notice_read_only_fields)
        id  == nextId.notices
        row == Notice(save_kwargs(vd, [created_by |-> actor]))
        resp == IF ~NoticeViewSet_get_permissions(actor) THEN 403
                ELSE IF ~is_valid(body, {"title", "content"}, FALSE) THEN 400
                ELSE 201
    IN  /\ served < MaxWrites
        /\ id \in NoticeIds
        /\ notices' = IF resp = 201 THEN With(notices, id, row) ELSE notices
        /\ nextId' = IF resp = 201 THEN [nextId EXCEPT !.notices = id + 1]
                                   ELSE nextId
        /\ UNCHANGED inflight
        /\ last' = Request("notice_create", actor, id, body, {}, resp)
        /\ served' = served + 1
        /\ UNCHANGED <<users, projects, tasks, timesheets, leaves,
                       timeEntries>>

\* NoticeViewSet.update / partial_update: the permission check precedes
\* get_object; perform_update is a plain serializer.save()
NoticeUpdate(actor, id, body, partial) ==
    LET vd == validated_data(body, Notice_read_only_fields)
        resp == IF ~NoticeViewSet_get_permissions(actor) THEN 403
                ELSE IF id \notin NoticeViewSet_queryset(actor) THEN 404
                ELSE IF ~is_valid(body, {"title", "content"}, partial) THEN 400
                ELSE 200
    IN  /\ served < MaxWrites
        /\ id \in DOMAIN notices
        /\ notices' = IF resp = 200
                      THEN With(notices, id, setattrs(notices[id], vd))
                      ELSE notices
        /\ UNCHANGED inflight
        /\ last' = Request("notice_update", actor, id, body, {notices[id]},
                           resp)
        /\ served' = served + 1
        /\ UNCHANGED <<users, projects, tasks, timesheets, leaves,
                       timeEntries, nextId>>

\* NoticeViewSet.destroy: perform_destroy is a plain instance.delete()
NoticeDestroy(actor, id) ==
    LET resp == IF ~NoticeViewSet_get_permissions(actor) THEN 403
                ELSE IF id \notin NoticeViewSet_queryset(actor) THEN 404
                ELSE 204
    IN  /\ served < MaxWrites
        /\ id \in DOMAIN notices
        /\ notices' = IF resp = 204 THEN Without(notices, id) ELSE notices
        /\ UNCHANGED inflight
        /\ last' = Request("notice_destroy", actor, id, NoBody, {notices[id]},
                           resp)
        /\ served' = served + 1
        /\ UNCHANGED <<users, projects, tasks, timesheets, leaves,
                       timeEntries, nextId>>

NoticeBodies ==
    {[title |-> "t", content |-> "c"],
     [title |-> "t", content |-> "c", created_by |-> "u1"],
     [title |-> "t2"]}

(* --------------------------------- User -------------------------------- *)

UserViewSet_get_queryset(actor) ==
    IF is_staff(actor) THEN DOMAIN users ELSE {u \in DOMAIN users : u = actor}

\* a request without credentials
Anonymous == "anonymous"

\* primary keys the user table can hand out to registrations
NewUserIds == {"u3"}

User_read_only_fields == {"is_staff"}

\* UserRegistrationSerializer.create: create_user(..., is_staff=is_staff)
\* with is_staff popped from the validated data, False when absent
UserRegistrationSerializer_create(vd) ==
    [is_staff |-> IF "is_staff" \in DOMAIN vd THEN vd.is_staff ELSE FALSE,
     email |-> vd.email]

\* UserViewSet.create: AllowAny, UserRegistrationSerializer
UserCreate(actor, id, body) ==
    LET resp == IF ~is_valid(body, {"username", "email", "password"}, FALSE)
                THEN 400 ELSE 201
    IN  /\ served < MaxWrites
        /\ actor \in (DOMAIN users) \cup {Anonymous}
        /\ id \in NewUserIds \ DOMAIN users
        /\ users' = IF resp = 201
                    THEN With(users, id, UserRegistrationSerializer_create(body))
                    ELSE users
        /\ UNCHANGED inflight
        /\ last' = Request("user_create", actor, id, body, {}, resp)
        /\ served' = served + 1
        /\ UNCHANGED <<projects, tasks, timesheets, leaves, timeEntries,
                       notices, nextId>>

\* UserViewSet.update / partial_update: IsAuthenticated, UserSerializer
UserUpdate(actor, id, body, partial) ==
    LET vd == validated_data(body, User_read_only_fields)
        resp == IF actor \notin DOMAIN users THEN 401
                ELSE IF id \notin UserViewSet_get_queryset(actor) THEN 404
                ELSE IF ~is_valid(body, {"username"}, partial) THEN 400
                ELSE 200
    IN  /\ served < MaxWrites
        /\ actor \in (DOMAIN users) \cup {Anonymous}
        /\ id \in DOMAIN users
        /\ users' = IF resp = 200 THEN With(users, id, setattrs(users[id], vd))
                                  ELSE users
        /\ UNCHANGED inflight
        /\ last' = Request("user_update", actor, id, body, {users[id]}, resp)
        /\ served' = served + 1
        /\ UNCHANGED <<projects, tasks, timesheets, leaves, timeEntries,
                       notices, nextId>>

UserCreateBodies ==
    {[username |-> "n3", email |-> "e3", password |-> "p"],
     [username |-> "n3", email |-> "e3", password |-> "p", is_staff |-> TRUE],
     [username |-> "n3", email |-> "e3", password |-> "p", is_staff |-> FALSE],
     [username |-> "n3", is_staff |-> TRUE]}

UserUpdateBodies ==
    {[email |-> "e1"], [email |-> "e1", is_staff |-> TRUE],
     [username |-> "n1", email |-> "e2", is_staff |-> TRUE],
     [is_staff |-> FALSE]}

\* on_delete=SET_NULL of the foreign keys `fields` that point at user `id`
SET_NULL(table, fields, id) ==
    [i \in DOMAIN table |->
        [f \in DOMAIN table[i] |->
            IF f \in fields /\ table[i][f] = id THEN NULL ELSE table[i][f]]]

\* on_delete=CASCADE of the rows whose user is `id`
CASCADE(table, id) ==
    [i \in {j \in DOMAIN table : table[j].user # id} |-> table[i]]

\* UserViewSet.destroy (IsAuthenticated; the row comes from get_queryset)
UserDestroy(actor, id) ==
    LET resp == IF id \notin UserViewSet_get_queryset(actor) THEN 404 ELSE 204
    IN  /\ served < MaxWrites
        /\ actor \in DOMAIN users
        /\ id \in DOMAIN users
        /\ UNCHANGED inflight
        /\ last' = Request("user_destroy", actor, id, NoBody, {users[id]}, resp)
        /\ served' = served + 1
        /\ IF resp = 204
           THEN /\ users' = Without(users, id)
                /\ timesheets' = CASCADE(timesheets, id)
                /\ timeEntries' = CASCADE(timeEntries, id)
                /\ leaves' = SET_NULL(CASCADE(leaves, id), {"approved_by"}, id)
                /\ tasks' = SET_NULL(tasks, {"assigned_to", "created_by",
                                             "reporting_manager"}, id)
                /\ notices' = SET_NULL(notices, {"created_by"}, id)
           ELSE UNCHANGED <<users, timesheets, timeEntries, leaves, tasks,
                            notices>>
        /\ UNCHANGED <<projects, nextId>>

(* ------------------------------ list requests -------------------------- *)

Entities == {"User", "Project", "Task", "TimesheetEntry", "TaskTimeEntry",
             "LeaveRequest", "Notice"}

\* ?user=<id>: honoured for admins by the timesheet and leave-request views
user_param(actor, entity, params, table, rows) ==
    IF is_staff(actor) /\ "user" \in DOMAIN params
       /\ entity \in {"TimesheetEntry", "LeaveRequest"}
    THEN {i \in rows : table[i].user = params.user}
    ELSE rows

\* ListModelMixin.list over the view's get_queryset
list(actor, entity, params) ==
    CASE entity = "User" -> UserViewSet_get_queryset(actor)
      [] entity = "Project" -> ProjectViewSet_queryset(actor)
      [] entity = "Task" -> TaskViewSet_get_queryset(actor)
      [] entity = "TimesheetEntry" ->
            user_param(actor, entity, params, timesheets,
                       TimesheetEntryViewSet_get_queryset(actor))
      [] entity = "TaskTimeEntry" ->
            TaskTimeEntryListCreateView_get_queryset(actor)
      [] entity = "LeaveRequest" ->
            user_param(actor, entity, params, leaves,
                       LeaveRequestViewSet_get_queryset(actor))
      [] entity = "Notice" -> NoticeViewSet_queryset(actor)

List(actor, entity, params) ==
    /\ UNCHANGED inflight
    /\ last' = Listing(entity, actor, params, list(actor, entity, params))
    /\ UNCHANGED <<users, projects, tasks, timesheets, leaves, timeEntries,
                   notices, nextId, served>>

ListParams == {NoBody, [user |-> "u1"]}

TaskBodies ==
    {Merge([project |-> 1, name |-> "n2"], a) :
        a \in {NoBody, [assigned_to |-> "u1"]}}

(* ---------------------------- specification ---------------------------- *)

Init ==
    /\ users = SeedUsers
    /\ projects = SeedProjects
    /\ tasks = SeedTasks
    /\ timesheets = [i \in {} |-> NULL]
    /\ leaves = [i \in {} |-> NULL]
    /\ timeEntries = [i \in {} |-> NULL]
    /\ notices = [i \in {} |-> NULL]
    /\ nextId = [timesheets |-> 1, leaves |-> 1, tasks |-> 2,
                 timeEntries |-> 1, notices |-> 1, projects |-> 2]
    /\ served = 0
    /\ last = Request("none", NULL, 0, NoBody, {}, 0)
    /\ inflight = {}

NextTS ==
    \/ \E a \in Actors, b \in TSBodies : TimesheetCreate(a, b)
    \/ \E a \in Actors, i \in TimesheetIds, b \in TSBodies, p \in BOOLEAN :
          TimesheetUpdate(a, i, b, p)
    \/ \E a \in Actors, i \in TimesheetIds : TimesheetDestroy(a, i)
    \/ \E a \in Actors, i \in TimesheetIds : TimesheetSubmit(a, i)
    \/ \E a \in Actors, i \in TimesheetIds, b \in TSStatusBodies :
          TimesheetUpdateStatus(a, i, b)

SpecTS == Init /\ [][NextTS]_vars

NextLR ==
    \/ \E a \in Actors, b \in LRCreateBodies : LeaveCreate(a, b)
    \/ \E a \in Actors, i \in LeaveIds, b \in LRUpdateBodies, p \in BOOLEAN :
          LeaveUpdate(a, i, b, p)
    \/ \E a \in Actors, i \in LeaveIds : LeaveDestroy(a, i)

SpecLR == Init /\ [][NextLR]_vars

\* the rows a list can return are created with one body per entity
NextList ==
    \/ \E a \in Actors, e \in Entities, p \in ListParams : List(a, e, p)
    \/ \E a \in Actors : ProjectCreate(a, [name |-> "p2"])
    \/ \E a \in Actors, b \in TaskBodies : TaskCreate(a, b)
    \/ \E a \in Actors :
          TimesheetCreate(a, [task |-> 1, date |-> "d1", hours |-> 4])
    \/ \E a \in Actors :
          TimeEntryCreate(a, [task |-> 1, start_time |-> 1, end_time |-> 2])
    \/ \E a \in Actors : LeaveCreate(a, LRBase)
    \/ \E a \in Actors : NoticeCreate(a, [title |-> "t", content |-> "c"])

SpecList == Init /\ [][NextList]_vars

NextTask ==
    \/ \E a \in Actors, b \in TaskCreateBodies : TaskCreate(a, b)
    \/ \E a \in Actors, i \in TaskIds, b \in TaskUpdateBodies, p \in BOOLEAN :
          TaskUpdate(a, i, b, p)
    \/ \E a \in Actors, i \in TaskIds : TaskDestroy(a, i)

SpecTask == Init /\ [][NextTask]_vars

NextProgress ==
    \/ \E a \in Actors, b \in TaskProgressBodies : TaskCreate(a, b)
    \/ \E a \in Actors, i \in TaskIds, b \in TaskProgressBodies, p \in BOOLEAN :
          TaskUpdate(a, i, b, p)

SpecProgress == Init /\ [][NextProgress]_vars

NextTTE ==
    \/ \E a \in Actors, b \in TTECreateBodies : TimeEntryCreate(a, b)
    \/ \E a \in Actors, i \in TimeEntryIds, b \in TTEUpdateBodies,
          p \in BOOLEAN : TimeEntryUpdate(a, i, b, p)
    \/ \E a \in Actors, i \in TimeEntryIds : TimeEntryDestroy(a, i)

SpecTTE == Init /\ [][NextTTE]_vars

\* a deleted user no longer authenticates, so the actors are the stored users
NextNotice ==
    \/ \E a \in DOMAIN users, b \in NoticeBodies : NoticeCreate(a, b)
    \/ \E a \in DOMAIN users, i \in NoticeIds, b \in NoticeBodies,
          p \in BOOLEAN : NoticeUpdate(a, i, b, p)
    \/ \E a \in DOMAIN users, i \in NoticeIds : NoticeDestroy(a, i)
    \/ \E a \in DOMAIN users, u \in Actors : UserDestroy(a, u)

SpecNotice == Init /\ [][NextNotice]_vars

\* request bodies that name a user, for the three entities that own one
OwnerTSBodies ==
    {[task |-> 1, date |-> "d1", hours |-> 4],
     [task |-> 1, date |-> "d1", hours |-> 4, user |-> "u2"],
     [hours |-> 8, user |-> "a1"]}

OwnerLRBodies ==
    {LRBase, Merge(LRBase, [user |-> "u2"]),
     [status |-> "approved", user |-> "a1"]}

OwnerTTEBodies ==
    {[task |-> 1, start_time |-> 1, end_time |-> 2],
     [task |-> 1, start_time |-> 1, end_time |-> 2, user |-> "u2"],
     [start_time |-> 1, end_time |-> 3, user |-> "a1"]}

NextOwner ==
    \/ \E a \in Actors, b \in OwnerTSBodies : TimesheetCreate(a, b)
    \/ \E a \in Actors, i \in TimesheetIds, b \in OwnerTSBodies,
          p \in BOOLEAN : TimesheetUpdate(a, i, b, p)
    \/ \E a \in Actors, i \in TimesheetIds : TimesheetSubmit(a, i)
    \/ \E a \in Actors, i \in TimesheetIds :
          TimesheetUpdateStatus(a, i, [status |-> "approved"])
    \/ \E a \in Actors, b \in OwnerLRBodies : LeaveCreate(a, b)
    \/ \E a \in Actors, i \in LeaveIds, b \in OwnerLRBodies, p \in BOOLEAN :
          LeaveUpdate(a, i, b, p)
    \/ \E a \in Actors, b \in OwnerTTEBodies : TimeEntryCreate(a, b)
    \/ \E a \in Actors, i \in TimeEntryIds, b \in OwnerTTEBodies,
          p \in BOOLEAN : TimeEntryUpdate(a, i, b, p)

SpecOwner == Init /\ [][NextOwner]_vars

\* the timesheet requests interleaved at their store accesses
NextTSSteps ==
    \/ \E a \in Actors :
          TimesheetCreate(a, [task |-> 1, date |-> "d1", hours |-> 4])
    \/ \E a \in Actors, i \in TimesheetIds, b \in TSStepBodies, p \in BOOLEAN :
          TimesheetUpdateGetObject(a, i, b, p)
    \/ \E r \in inflight : TimesheetUpdatePerformUpdate(r)
    \/ \E r \in inflight : TimesheetUpdateSave(r)
    \/ \E a \in Actors, i \in TimesheetIds : TimesheetSubmitGetObject(a, i)
    \/ \E a \in Actors, i \in TimesheetIds, b \in TSStatusBodies :
          TimesheetUpdateStatusGetObject(a, i, b)
    \/ \E r \in inflight : TimesheetEntrySave(r)

SpecTSSteps == Init /\ [][NextTSSteps]_vars

NextUser ==
    \/ \E a \in (DOMAIN users) \cup {Anonymous}, i \in NewUserIds,
          b \in UserCreateBodies : UserCreate(a, i, b)
    \/ \E a \in (DOMAIN users) \cup {Anonymous}, i \in DOMAIN users,
          b \in UserUpdateBodies, p \in BOOLEAN : UserUpdate(a, i, b, p)

SpecUser == Init /\ [][NextUser]_vars

(* ------------------------------- claims -------------------------------- *)

Decided == {"approved", "rejected"}

IsNonAdmin(u) == u \in DOMAIN users /\ ~is_staff(u)

carries(f) == f \in DOMAIN last.body

\* C1: an update (full or partial) by the non-admin owner of a timesheet
\* entry whose stored status is not draft leaves every stored field of the
\* entry, status included, as it was.
C1_OwnerUpdateLeavesNonDraftEntry ==
    (last.op = "ts_update" /\ IsNonAdmin(last.actor)) =>
        \A p \in last.pre :
            (p.user = last.actor /\ p.status # "draft") =>
                /\ last.id \in DOMAIN timesheets
                /\ timesheets[last.id] = p

C1_Witness ==
    /\ last.op = "ts_update"
    /\ IsNonAdmin(last.actor)
    /\ carries("hours") /\ carries("status")
    /\ \E p \in last.pre :
          /\ p.user = last.actor
          /\ p.status = "submitted"
          /\ p.hours # last.body.hours
          /\ p.status # last.body.status
          /\ timesheets[last.id] = p

\* C2: an update that sets a leave request's status to approved or rejected
\* succeeds only for an admin, and right after it approved_by is that admin,
\* whatever approved_by the body names and whoever approved it before.
C2_DecisionOnlyByAdminWhoBecomesApprover ==
    (last.op = "lr_update") =>
        \A p \in last.pre :
            /\ (carries("status") /\ last.body.status \in Decided) =>
                  IF last.resp = 200
                  THEN /\ is_staff(last.actor)
                       /\ leaves[last.id].status = last.body.status
                       /\ leaves[last.id].approved_by = last.actor
                  ELSE leaves[last.id] = p
            /\ (leaves[last.id].status \in Decided
                /\ leaves[last.id].status # p.status) =>
                  /\ is_staff(last.actor)
                  /\ leaves[last.id].approved_by = last.actor

C2_Witness ==
    /\ last.op = "lr_update"
    /\ last.resp = 200
    /\ last.actor = "a1"
    /\ carries("approved_by") /\ last.body.approved_by = "a2"
    /\ carries("status") /\ last.body.status = "rejected"
    /\ \E p \in last.pre : p.status = "approved" /\ p.approved_by = "a2"
    /\ leaves[last.id].status = "rejected"
    /\ leaves[last.id].approved_by = "a1"

\* C3: a timesheet entry's status becomes approved or rejected only by an
\* admin's request: after a create, update, partial update or submit by a
\* non-admin the entry is approved or rejected only if it already was.
C3_NonAdminNeverDecidesEntry ==
    (last.op \in {"ts_create", "ts_update", "ts_submit"}
     /\ IsNonAdmin(last.actor)
     /\ last.id \in DOMAIN timesheets
     /\ timesheets[last.id].status \in Decided) =>
        \E p \in last.pre : p.status = timesheets[last.id].status

\* C4: update_status moves an entry into approved or rejected only from
\* submitted, never from draft, approved or rejected.
C4_UpdateStatusOnlyFromSubmitted ==
    (last.op = "ts_update_status" /\ last.resp = 200) =>
        \A p \in last.pre : p.status = "submitted"

\* C5: an update by the non-admin owner of a leave request whose stored
\* status is not pending changes none of its content fields, with or
\* without a status field in the body.
C5_OwnerUpdateLeavesProcessedContent ==
    (last.op = "lr_update" /\ IsNonAdmin(last.actor)) =>
        \A p \in last.pre :
            (p.user = last.actor /\ p.status # "pending") =>
                \A f \in LR_content_fields : leaves[last.id][f] = p[f]

\* C6: a leave request is pending right after the create request of a
\* non-admin that stored it, whatever the body held.
C6_CreatedLeaveIsPending ==
    (last.op = "lr_create" /\ last.resp = 201 /\ IsNonAdmin(last.actor)) =>
        leaves[last.id].status = "pending"

\* C7: a timesheet entry is draft right after the create request that
\* stored it, whatever the body held.
C7_CreatedEntryIsDraft ==
    (last.op = "ts_create" /\ last.resp = 201) =>
        timesheets[last.id].status = "draft"

\* C8: after an admin's update that sets an approved or rejected leave
\* request back to pending, approved_by is null.
C8_RevertToPendingClearsApprover ==
    (last.op = "lr_update" /\ last.resp = 200 /\ is_staff(last.actor)
     /\ carries("status") /\ last.body.status = "pending") =>
        \A p \in last.pre :
            p.status \in Decided =>
                /\ leaves[last.id].status = "pending"
                /\ leaves[last.id].approved_by = NULL

C8_Witness ==
    /\ last.op = "lr_update"
    /\ last.resp = 200
    /\ is_staff(last.actor)
    /\ carries("status") /\ last.body.status = "pending"
    /\ carries("approved_by")
    /\ \E p \in last.pre :
          /\ p.status = "approved"
          /\ p.approved_by \in {"a1", "a2"}
          /\ p.approved_by # last.actor
    /\ leaves[last.id].status = "pending"
    /\ leaves[last.id].approved_by = NULL

\* C9: no create or update by a non-admin stores an admin_comments value
\* that the actor supplied, and a non-admin update carrying admin_comments
\* is refused and leaves the request as it was.
C9_NonAdminNeverSetsAdminComments ==
    (last.op \in {"lr_create", "lr_update"} /\ IsNonAdmin(last.actor)
     /\ carries("admin_comments")) =>
        /\ last.op = "lr_create" =>
              (last.id \in DOMAIN leaves =>
                  leaves[last.id].admin_comments = NULL)
        /\ last.op = "lr_update" =>
              /\ last.resp \notin {200, 201}
              /\ \A p \in last.pre : leaves[last.id] = p

\* the ownership relation of the list claim: user, assignee or creator
Owns(actor, entity, i) ==
    CASE entity = "User" -> i = actor
      [] entity = "Project" -> FALSE
      [] entity = "Task" ->
            tasks[i].assigned_to = actor \/ tasks[i].created_by = actor
      [] entity = "TimesheetEntry" -> timesheets[i].user = actor
      [] entity = "TaskTimeEntry" -> timeEntries[i].user = actor
      [] entity = "LeaveRequest" -> leaves[i].user = actor
      [] entity = "Notice" -> notices[i].created_by = actor

Table(entity) ==
    CASE entity = "User" -> DOMAIN users
      [] entity = "Project" -> DOMAIN projects
      [] entity = "Task" -> DOMAIN tasks
      [] entity = "TimesheetEntry" -> DOMAIN timesheets
      [] entity = "TaskTimeEntry" -> DOMAIN timeEntries
      [] entity = "LeaveRequest" -> DOMAIN leaves
      [] entity = "Notice" -> DOMAIN notices

OwnedEntities == {"User", "Task", "TimesheetEntry", "TaskTimeEntry",
                  "LeaveRequest"}

\* C10 as stated: for a non-admin actor the list of any of the seven entity
\* types returns only rows the actor owns.
C10_ListReturnsOnlyOwnedRows ==
    (last.op = "list" /\ IsNonAdmin(last.actor)) =>
        \A i \in last.rows : Owns(last.actor, last.entity, i)

\* C10 amended: for a non-admin actor the list of User, Task,
\* TimesheetEntry, TaskTimeEntry and LeaveRequest returns only rows the
\* actor owns, and the list of Project and Notice returns every stored row.
C10_ListOwnedRowsExceptProjectAndNotice ==
    (last.op = "list" /\ IsNonAdmin(last.actor)) =>
        IF last.entity \in OwnedEntities
        THEN \A i \in last.rows : Owns(last.actor, last.entity, i)
        ELSE last.rows = Table(last.entity)

C10_Witness ==
    /\ last.op = "list"
    /\ IsNonAdmin(last.actor)
    /\ last.entity = "Task"
    /\ last.rows # {}
    /\ last.rows # DOMAIN tasks
    /\ \E i \in DOMAIN timesheets : timesheets[i].user # last.actor
    /\ \E i \in DOMAIN leaves : leaves[i].user # last.actor

\* C11: a write request refused for lack of permission is answered with
\* authorization-denied, never with success: the update of a timesheet
\* entry that is no longer draft by its non-admin owner is answered 403.
C11_RefusedOwnerUpdateAnswers403 ==
    (last.op = "ts_update" /\ IsNonAdmin(last.actor)) =>
        \A p \in last.pre :
            (p.user = last.actor /\ p.status # "draft") => last.resp = 403

\* C12: a non-admin's update of a task is permitted exactly when the actor
\* is the task's assignee or its creator (the body not handing the task to
\* somebody else); a creator whose task was reassigned can still update it.
C12_UpdatePermittedIffAssigneeOrCreator ==
    (last.op = "task_update" /\ IsNonAdmin(last.actor)
     /\ (carries("assigned_to") => last.body.assigned_to = last.actor)) =>
        \A p \in last.pre :
            (last.resp \notin {403, 404}) <=>
                (p.assigned_to = last.actor \/ p.created_by = last.actor)

\* C13: after a successful task create by a non-admin the stored task has
\* assigned_to and created_by equal to the actor; a non-admin's create that
\* names another user as assigned_to is refused and stores no task.
C13_NonAdminCreatesOnlyOwnTask ==
    (last.op = "task_create" /\ IsNonAdmin(last.actor)) =>
        /\ last.resp = 201 =>
              /\ last.id \in DOMAIN tasks
              /\ tasks[last.id].assigned_to = last.actor
              /\ tasks[last.id].created_by = last.actor
        /\ (carries("assigned_to")
            /\ last.body.assigned_to \in (DOMAIN users) \ {last.actor}) =>
              /\ last.resp = 403
              /\ last.id \notin DOMAIN tasks

C13_Witness ==
    /\ last.op = "task_create"
    /\ last.actor = "u1"
    /\ carries("assigned_to") /\ last.body.assigned_to = "u2"
    /\ last.resp = 403
    /\ last.id \notin DOMAIN tasks
    /\ DOMAIN tasks = {1}

\* C17: every stored task has 0 <= progress <= 100.
C17_ProgressWithinPercentRange ==
    \A i \in DOMAIN tasks : tasks[i].progress >= 0 /\ tasks[i].progress <= 100

\* C20: a task delete by a non-admin succeeds only if the actor created the
\* task; a non-admin who is only the assignee cannot delete it, and a
\* refused delete leaves the task and its subtasks in place.
C20_NonAdminDeletesOnlyOwnCreation ==
    (last.op = "task_destroy" /\ IsNonAdmin(last.actor)) =>
        \A p \in last.pre :
            /\ last.resp = 204 => p.created_by = last.actor
            /\ (p.assigned_to = last.actor /\ p.created_by # last.actor) =>
                  last.resp # 204
            /\ last.resp # 204 =>
                  /\ DOMAIN tasks = last.rows
                  /\ tasks[last.id] = p

C20_Witness ==
    /\ last.op = "task_destroy"
    /\ IsNonAdmin(last.actor)
    /\ last.resp = 403
    /\ \E p \in last.pre :
          p.assigned_to = last.actor /\ p.created_by # last.actor
    /\ last.id \in DOMAIN tasks
    /\ \E i \in DOMAIN tasks : tasks[i].parent_task = last.id

\* C14: a time-entry create whose end_time is at or before its start_time
\* is rejected with a validation error and stores no entry.
C14_CreateRejectsEndNotAfterStart ==
    (last.op = "tte_create" /\ carries("start_time") /\ carries("end_time")
     /\ last.body.end_time <= last.body.start_time) =>
        /\ last.resp = 400
        /\ last.id \notin DOMAIN timeEntries

C14_Witness ==
    /\ last.op = "tte_create"
    /\ carries("start_time") /\ carries("end_time")
    /\ last.body.end_time = last.body.start_time
    /\ last.resp = 400
    /\ timeEntries = [i \in {} |-> NULL]

\* C15: every stored time entry has end_time strictly after start_time,
\* whatever creates, updates and partial updates were served.
C15_StoredEntryEndsAfterStart ==
    \A i \in DOMAIN timeEntries :
        timeEntries[i].end_time > timeEntries[i].start_time

C15_Witness ==
    /\ last.op = "tte_update"
    /\ DOMAIN last.body = {"start_time"}
    /\ last.resp = 500
    /\ \E p \in last.pre :
          /\ last.body.start_time >= p.end_time
          /\ timeEntries[last.id] = p

NoticeWrites == {"notice_create", "notice_update", "notice_destroy"}

\* the part of C16 that is about who may write: a notice write by a
\* non-admin is answered 403 and changes no notice, and a notice that
\* appears has the admin who issued the create as its created_by
NoticeWritesByAdminOnly ==
    /\ (served' # served /\ last'.op \in NoticeWrites
        /\ ~is_staff(last'.actor)) =>
            (last'.resp = 403 /\ notices' = notices)
    /\ \A i \in (DOMAIN notices') \ (DOMAIN notices) :
          /\ last'.op = "notice_create"
          /\ is_staff(last'.actor)
          /\ notices'[i].created_by = last'.actor
    /\ (DOMAIN notices') # (DOMAIN notices) =>
          (last'.op \in NoticeWrites /\ is_staff(last'.actor))

\* C16: only admins create, update or delete a notice; every non-admin
\* create, update, partial update or delete is refused and leaves the
\* notices unchanged; each notice's created_by is the admin who created
\* it, in every later state.
C16_NoticeWritesAdminOnlyCreatorKept ==
    [][/\ NoticeWritesByAdminOnly
       /\ \A i \in (DOMAIN notices') \cap (DOMAIN notices) :
             notices'[i].created_by = notices[i].created_by]_vars

\* C16 as the code has it: only admins create, update or delete a notice
\* and a non-admin write is refused and changes nothing; a notice's
\* created_by is the admin who created it until that user is deleted, and
\* null from then on.
C16_NoticeWritesAdminOnlyCreatorKeptOrNull ==
    [][/\ NoticeWritesByAdminOnly
       /\ \A i \in (DOMAIN notices') \cap (DOMAIN notices) :
             \/ notices'[i].created_by = notices[i].created_by
             \/ /\ notices'[i].created_by = NULL
                /\ last'.op = "user_destroy"
                /\ last'.resp = 204
                /\ last'.id = notices[i].created_by]_vars

C16_Witness ==
    /\ last.op = "notice_update"
    /\ IsNonAdmin(last.actor)
    /\ carries("created_by")
    /\ last.resp = 403
    /\ last.id \in DOMAIN notices
    /\ notices[last.id].created_by = NULL
    /\ \E p \in last.pre : notices[last.id] = p

\* the user of every new row is the actor of the request, and the user of
\* every row that stays is the one it had
UserIsCreatorAndKept(table, table2) ==
    /\ \A i \in (DOMAIN table2) \ (DOMAIN table) :
          table2[i].user = last'.actor
    /\ \A i \in (DOMAIN table2) \cap (DOMAIN table) :
          table2[i].user = table[i].user

Updated(op, id) ==
    CASE op = "ts_update" -> timesheets[id]
      [] op = "lr_update" -> leaves[id]
      [] op = "tte_update" -> timeEntries[id]

C19_SubmitOnlyOwnDraft ==
    last.op = "ts_submit" =>
        \A p \in last.pre :
            IF p.user = last.actor /\ p.status = "draft"
            THEN /\ last.resp = 200
                 /\ timesheets[last.id] = [p EXCEPT !.status = "submitted"]
            ELSE /\ last.resp >= 400
                 /\ timesheets[last.id] = p

C19_Witness ==
    /\ last.op = "ts_submit"
    /\ is_staff(last.actor)
    /\ last.resp = 403
    /\ \E p \in last.pre :
          /\ p.user # last.actor
          /\ p.status = "draft"
          /\ timesheets[last.id] = p

\* C21: with the handlers interleaved at their store reads and writes, an
\* owner's update that read the entry while it was draft never overwrites
\* what update_status committed in between: an entry whose stored status is
\* approved or rejected keeps its status and content when a non-admin's
\* update completes.
C21_DecidedEntryKeptUnderInterleaving ==
    [][\A i \in (DOMAIN timesheets) \cap (DOMAIN timesheets') :
          (/\ timesheets[i].status \in Decided
           /\ timesheets'[i] # timesheets[i]
           /\ last'.op = "ts_update")
              => is_staff(last'.actor)]_vars

\* C22: in every state reached through leave-request creates and updates, a
\* leave request has a non-null approved_by exactly when its status is
\* approved or rejected, and that approver is an admin.
C22_ApproverIffDecidedAndAdmin ==
    \A i \in DOMAIN leaves :
        /\ (leaves[i].approved_by # NULL) <=> (leaves[i].status \in Decided)
        /\ leaves[i].approved_by # NULL => is_staff(leaves[i].approved_by)

\* C23: no request of an unauthenticated or non-admin actor leaves a user
\* account with is_staff true that did not have it before: a registration
\* by such an actor creates a non-admin user and a user update never
\* changes is_staff.
C23_NoAdminFromNonAdminRequest ==
    [][(\E u \in DOMAIN users' :
           /\ users'[u].is_staff
           /\ u \in DOMAIN users => ~users[u].is_staff)
        => (last'.actor \in DOMAIN users /\ is_staff(last'.actor))]_vars

====
